---- MODULE Spec2Model ----
(***************************************************************************)
(* Model of scripts/update_projects.py: one process invocation lists the   *)
(* account's public repositories page by page, filters them, resolves the  *)
(* published-site URL of each eligible one, sorts the entries and writes   *)
(* _data/projects.json unless the file already parses to the same list.    *)
(*                                                                         *)
(* Strings are sequences of one-character strings, so that lower(),        *)
(* strip(), split(), rstrip() and the lexicographic comparison used by     *)
(* sort() are computed character by character.                             *)
(***************************************************************************)
EXTENDS Integers, Sequences, FiniteSets, TLC

VARIABLES
    world,              \* environment variables and the upstream API's answers (fixed for both runs)
    file,               \* _data/projects.json on disk
    dirExists,          \* whether the directory _data exists
    run,                \* number of the process invocation (1 or 2)
    pc,                 \* position in the script
    OWNER, OWNER_LOWER, EXCLUDE_REPOS, EXCLUDE_FULL_NAMES,   \* module globals, lines 23-35
    repos, page,        \* list_public_repos locals
    call, attempt, r, ret,   \* gh_get: arguments, loop counter, last response, result
    idx,                \* main: position of the for loop in repos
    pages_projects,     \* main: the list being built
    origin,             \* for each entry of pages_projects, the index in repos of its record
    error,              \* the exception that ended the process, "" if none
    stdout,             \* the summary line printed
    wrote,              \* whether this run opened the snapshot for writing
    trace,              \* calls of gh_get, requests and sleeps of this run, in order
    fileAtStart,        \* the snapshot as it was when this run started
    dirAtStart,         \* dirExists when this run started
    first               \* how the first run ended (pc, error), once a second run starts

vars == <<world, file, dirExists, run, pc, OWNER, OWNER_LOWER, EXCLUDE_REPOS,
          EXCLUDE_FULL_NAMES, repos, page, call, attempt, r, ret, idx,
          pages_projects, origin, error, stdout, wrote, trace, fileAtStart,
          dirAtStart, first>>

-----------------------------------------------------------------------------
(* Python values *)

\* None; no string is equal to it, since the characters of a string are one character long
None == <<"None">>

\* truth value of a string or None (bool(x))
Truthy(v) == v # None /\ v # <<>>

\* a or b
Or(a, b) == IF Truthy(a) THEN a ELSE b

\* d.get(key, default) for a dict d
Get(d, key, default) == IF key \in DOMAIN d THEN d[key] ELSE default

UPPER == <<"A","B","C","D","E","F","G","H","I","J","K","L","M",
           "N","O","P","Q","R","S","T","U","V","W","X","Y","Z">>
LOWER == <<"a","b","c","d","e","f","g","h","i","j","k","l","m",
           "n","o","p","q","r","s","t","u","v","w","x","y","z">>

LowerChar(c) ==
    IF \E i \in DOMAIN UPPER : UPPER[i] = c
    THEN LOWER[CHOOSE i \in DOMAIN UPPER : UPPER[i] = c]
    ELSE c

\* str.lower()
Lower(s) == [i \in 1..Len(s) |-> LowerChar(s[i])]

WHITESPACE == {" ", "\t", "\n"}

RECURSIVE LStrip(_)
LStrip(s) == IF s # <<>> /\ Head(s) \in WHITESPACE THEN LStrip(Tail(s)) ELSE s

RECURSIVE RStripSet(_, _)
RStripSet(s, chars) ==
    IF s # <<>> /\ s[Len(s)] \in chars
    THEN RStripSet(SubSeq(s, 1, Len(s) - 1), chars)
    ELSE s

\* str.strip()
Strip(s) == RStripSet(LStrip(s), WHITESPACE)

\* str.rstrip("/")
RStrip(s, c) == RStripSet(s, {c})

\* str.split(sep): the pieces between the separators, empty pieces included
RECURSIVE SplitFrom(_, _, _)
SplitFrom(s, sep, cur) ==
    IF s = <<>> THEN <<cur>>
    ELSE IF Head(s) = sep THEN <<cur>> \o SplitFrom(Tail(s), sep, <<>>)
    ELSE SplitFrom(Tail(s), sep, Append(cur, Head(s)))

Split(s, sep) == SplitFrom(s, sep, <<>>)

\* code-point order of the characters that occur in timestamps
CODEPOINTS == <<"-","0","1","2","3","4","5","6","7","8","9",":","T","Z">>

Ord(c) == CHOOSE i \in DOMAIN CODEPOINTS : CODEPOINTS[i] = c

\* a < b for Python strings
RECURSIVE StrLess(_, _)
StrLess(a, b) ==
    IF b = <<>> THEN FALSE
    ELSE IF a = <<>> THEN TRUE
    ELSE IF Head(a) # Head(b) THEN Ord(Head(a)) < Ord(Head(b))
    ELSE StrLess(Tail(a), Tail(b))

-----------------------------------------------------------------------------
(* String constants of the script *)

HTTPS == <<"h","t","t","p","s",":","/","/">>
DOT_GITHUB_IO == <<".","g","i","t","h","u","b",".","i","o">>
GITHUB_COM == <<"g","i","t","h","u","b",".","c","o","m">>
SLASH == <<"/">>


-----------------------------------------------------------------------------
(* Module level, lines 23-35 *)

\* lines 28-34: the exclusion set built from GITHUB_EXCLUDE_REPOS and the self repository
ExcludeRepos(exclude_env, self_repo) ==
    LET parts == Split(exclude_env, ",")
    IN  { Lower(Strip(parts[i])) : i \in { j \in DOMAIN parts : Strip(parts[j]) # <<>> } }
        \cup (IF Truthy(self_repo) THEN {Lower(self_repo)} ELSE {})

\* line 35
ExcludeFullNames(owner_lower, exclude_repos) ==
    { owner_lower \o SLASH \o name : name \in exclude_repos }

-----------------------------------------------------------------------------
(* gh_get, lines 46-53 *)

MaxAttempts == 3
BackoffTenths == 15

OK_LIST == {200}
OK_PAGES == {200, 403, 404}

\* the body of a response that is not a 200 of the site-configuration endpoint
NoData == [message |-> "n/a"]

NoResponse == [status_code |-> 0, chunk |-> <<>>, data |-> NoData]
NoCall == [who |-> "", ep |-> [kind |-> "", owner |-> <<>>, page |-> 0, repo |-> <<>>],
           ok_codes |-> {}]
NoRet == [kind |-> "", r |-> NoResponse, exc |-> ""]

\* the page of the listing the upstream serves for page number p
PageChunk(p) == IF p \in DOMAIN world.pages THEN world.pages[p] ELSE <<>>

\* what the upstream does on the k-th attempt of a get of endpoint ep:
\* the scripted outcome if ep is the world's faulty endpoint, its normal answer otherwise
Outcome(ep, k) ==
    IF world.faultKind = ep.kind /\ world.faultPage = ep.page /\ world.faultRepo = ep.repo
       /\ k \in DOMAIN world.script
    THEN world.script[k]
    ELSE [exc |-> FALSE,
          status |-> IF ep.kind = "repos" THEN 200 ELSE world.site.status]

\* the response object for a status
Response(ep, status) ==
    [status_code |-> status,
     chunk |-> IF ep.kind = "repos" /\ status = 200 THEN PageChunk(ep.page) ELSE <<>>,
     data  |-> IF ep.kind = "pages" /\ status = 200 THEN world.site.data ELSE NoData]

\* r.raise_for_status() raises for 4xx and 5xx only
RaisesForStatus(status) == 400 <= status /\ status < 600

\* line 53: the result of gh_get once the loop is over
Exhausted(resp) ==
    IF RaisesForStatus(resp.status_code)
    THEN [kind |-> "raise", r |-> resp, exc |-> "HTTPError"]
    ELSE [kind |-> "none", r |-> NoResponse, exc |-> ""]

\* the exceptions that `except requests.RequestException` catches
RequestException == {"HTTPError", "ConnectionError"}

-----------------------------------------------------------------------------
(* get_pages_url, lines 71-99 *)

SpecialRoot(owner) == Lower(owner) \o DOT_GITHUB_IO

\* IsRoot comparing the name as it is spelled
IsRootCaseSensitive(owner, repo_name) == repo_name = SpecialRoot(owner)

\* lines 80-82
IsRoot(owner, repo_name) == Lower(repo_name) = SpecialRoot(owner)

RootUrl(owner) == HTTPS \o SpecialRoot(owner) \o SLASH

\* line 99
FallbackUrl(owner, repo_name) ==
    HTTPS \o owner \o DOT_GITHUB_IO \o SLASH \o repo_name \o SLASH

\* UrlOfResponse preferring the custom domain to the site url
UrlOfResponseDomainFirst(owner, repo_name, resp) ==
    IF resp.status_code = 200
    THEN LET data == resp.data
         IN  IF "cname" \in DOMAIN data /\ Truthy(data["cname"])
             THEN HTTPS \o RStrip(data["cname"], "/") \o SLASH
             ELSE IF "html_url" \in DOMAIN data /\ Truthy(data["html_url"])
             THEN RStrip(data["html_url"], "/") \o SLASH
             ELSE FallbackUrl(owner, repo_name)
    ELSE FallbackUrl(owner, repo_name)

\* lines 88-99: the url for a response gh_get returned
UrlOfResponse(owner, repo_name, resp) ==
    IF resp.status_code = 200
    THEN LET data == resp.data
         IN  IF "html_url" \in DOMAIN data /\ Truthy(data["html_url"])
             THEN RStrip(data["html_url"], "/") \o SLASH
             ELSE IF "cname" \in DOMAIN data /\ Truthy(data["cname"])
             THEN HTTPS \o RStrip(data["cname"], "/") \o SLASH
             ELSE FallbackUrl(owner, repo_name)
    ELSE FallbackUrl(owner, repo_name)

-----------------------------------------------------------------------------
(* main, lines 101-158 *)

\* Eligible comparing the name as it is spelled
EligibleCaseSensitive(repo) ==
    /\ Get(repo, "has_pages", FALSE)
    /\ ~Get(repo, "archived", FALSE)
    /\ repo["name"] \notin EXCLUDE_REPOS
    /\ Get(repo, "full_name", OWNER \o SLASH \o repo["name"]) \notin EXCLUDE_FULL_NAMES

\* Eligible without the archived test
EligibleArchivedToo(repo) ==
    /\ Get(repo, "has_pages", FALSE)
    /\ Lower(repo["name"]) \notin EXCLUDE_REPOS
    /\ Lower(Get(repo, "full_name", OWNER \o SLASH \o repo["name"])) \notin EXCLUDE_FULL_NAMES

\* lines 106-114: the record passes the filter
Eligible(repo) ==
    /\ Get(repo, "has_pages", FALSE)
    /\ ~Get(repo, "archived", FALSE)
    /\ Lower(repo["name"]) \notin EXCLUDE_REPOS
    /\ Lower(Get(repo, "full_name", OWNER \o SLASH \o repo["name"])) \notin EXCLUDE_FULL_NAMES

\* lines 116-133
Entry(repo, url) ==
    [name        |-> repo["name"],
     url         |-> url,
     github_url  |-> Or(Get(repo, "html_url", None),
                        HTTPS \o GITHUB_COM \o SLASH \o OWNER \o SLASH \o repo["name"]),
     description |-> Or(Get(repo, "description", None), <<>>),
     updated_at  |-> Or(Get(repo, "pushed_at", None),
                        Or(Get(repo, "updated_at", None), <<>>)),
     stars       |-> Get(repo, "stargazers_count", 0),
     language    |-> Or(Get(repo, "language", None), <<>>)]

\* line 137: the sort key
SortKey(x) == Or(x["updated_at"], <<>>)

\* InsertDesc putting a new index before the indexes of equal key
RECURSIVE InsertDescUnstable(_, _, _)
InsertDescUnstable(perm, k, keys) ==
    IF perm = <<>> THEN <<k>>
    ELSE IF ~StrLess(keys[k], keys[Head(perm)]) THEN <<k>> \o perm
    ELSE <<Head(perm)>> \o InsertDescUnstable(Tail(perm), k, keys)

\* where a new index goes in a list of indexes already in descending key order:
\* after every index whose key is not less than its own (stable)
RECURSIVE InsertDesc(_, _, _)
InsertDesc(perm, k, keys) ==
    IF perm = <<>> THEN <<k>>
    ELSE IF StrLess(keys[Head(perm)], keys[k]) THEN <<k>> \o perm
    ELSE <<Head(perm)>> \o InsertDesc(Tail(perm), k, keys)

RECURSIVE SortPermUpTo(_, _)
SortPermUpTo(keys, n) ==
    IF n = 0 THEN <<>> ELSE InsertDesc(SortPermUpTo(keys, n - 1), n, keys)

\* line 137: list.sort(key=..., reverse=True) as the permutation it applies
SortPerm(list) == SortPermUpTo([i \in DOMAIN list |-> SortKey(list[i])], Len(list))

Permute(list, perm) == [i \in DOMAIN perm |-> list[perm[i]]]

-----------------------------------------------------------------------------
(* JSON text of the snapshot, lines 143-156 *)

KEYS == <<"name", "url", "github_url", "description", "updated_at", "stars", "language">>

\* the JSON token json.dump writes for a field's value
Encode(key, v) ==
    IF key = "stars" THEN [t |-> "number", s |-> <<>>, n |-> v]
    ELSE IF v = None THEN [t |-> "null", s |-> <<>>, n |-> 0]
    ELSE [t |-> "string", s |-> v, n |-> 0]

\* the value json.load builds from a token
Decode(tok) ==
    IF tok.t = "number" THEN tok.n
    ELSE IF tok.t = "null" THEN None
    ELSE tok.s

\* DumpObject with the star count written under the upstream's key
DumpObjectUpstreamKey(e) ==
    [i \in DOMAIN KEYS |->
        [key |-> IF KEYS[i] = "stars" THEN "stargazers_count" ELSE KEYS[i],
         val |-> Encode(KEYS[i], e[KEYS[i]])]]

\* an object's members, in the dict's insertion order
DumpObject(e) == [i \in DOMAIN KEYS |-> [key |-> KEYS[i], val |-> Encode(KEYS[i], e[KEYS[i]])]]

\* lines 155-156: json.dump(pages_projects, f, ensure_ascii=False, indent=2)
Dump(list) == [kind |-> "array", items |-> [i \in DOMAIN list |-> DumpObject(list[i])]]

\* a parsed object: for each key the value of its last member
LoadObject(members) ==
    [k \in { members[i].key : i \in DOMAIN members } |->
        Decode(members[CHOOSE i \in DOMAIN members :
                          /\ members[i].key = k
                          /\ \A j \in DOMAIN members : members[j].key = k => j <= i].val)]

\* lines 144-147: json.load(f), None when it raises
Load(text) ==
    IF text.kind = "array"
    THEN [kind |-> "list", v |-> [i \in DOMAIN text.items |-> LoadObject(text.items[i])]]
    ELSE IF text.kind = "object"
    THEN [kind |-> "dict", v |-> <<>>]
    ELSE [kind |-> "None", v |-> <<>>]

\* SameAsOld comparing the number of entries only
SameAsOldLength(old, list) == old.kind = "list" /\ Len(old.v) = Len(list)

\* line 150: old == pages_projects
SameAsOld(old, list) == old.kind = "list" /\ old.v = list

NoFile == [exists |-> FALSE, openable |-> FALSE, text |-> [kind |-> "", items |-> <<>>]]


-----------------------------------------------------------------------------
(* Inputs: environments, upstream listings, site configurations, faults, files *)

\* the most records a listing of the rich family holds
MaxRepos == 2

Ac == <<"A","c">>
T1 == <<"2","0","2","4","-","0","1","-","0","1","T","0","0",":","0","0",":","0","0","Z">>
T2 == <<"2","0","2","4","-","0","6","-","0","1","T","0","0",":","0","0",":","0","0","Z">>

RepoW ==
    [name |-> <<"w">>, full_name |-> <<"A","c","/","w">>, has_pages |-> TRUE,
     archived |-> FALSE, description |-> <<"d">>, pushed_at |-> T2, updated_at |-> T1,
     stargazers_count |-> 3, language |-> <<"G","o">>,
     html_url |-> HTTPS \o GITHUB_COM \o <<"/","A","c","/","w">>]
\* no pushed_at: the timestamp falls back to updated_at, equal to RepoW's
RepoV ==
    [name |-> <<"v">>, has_pages |-> TRUE, description |-> None, pushed_at |-> None,
     updated_at |-> T2, language |-> None, html_url |-> None]
RepoU ==
    [name |-> <<"u">>, has_pages |-> TRUE, archived |-> FALSE, pushed_at |-> T1,
     updated_at |-> T2, stargazers_count |-> 0]
\* no timestamp at all
RepoE ==
    [name |-> <<"e">>, has_pages |-> TRUE, archived |-> FALSE, pushed_at |-> None,
     updated_at |-> None, stargazers_count |-> 1]
RepoRoot ==
    [name |-> <<"A","c">> \o DOT_GITHUB_IO, has_pages |-> TRUE, archived |-> FALSE,
     pushed_at |-> T1, updated_at |-> T1, stargazers_count |-> 2]
RepoS ==
    [name |-> <<"S">>, full_name |-> <<"A","c","/","S">>, has_pages |-> TRUE,
     archived |-> FALSE, pushed_at |-> T2, updated_at |-> T2, stargazers_count |-> 5]
RepoHub ==
    [name |-> <<"h","u","b">>, has_pages |-> TRUE, archived |-> FALSE,
     pushed_at |-> T2, updated_at |-> T2, stargazers_count |-> 0]
RepoArchived ==
    [name |-> <<"w">>, has_pages |-> TRUE, archived |-> TRUE, pushed_at |-> T1,
     updated_at |-> T1, stargazers_count |-> 0]
RepoNoPages ==
    [name |-> <<"v">>, archived |-> FALSE, pushed_at |-> T2, updated_at |-> T2,
     stargazers_count |-> 0]
RepoPagesOff ==
    [name |-> <<"u">>, has_pages |-> FALSE, archived |-> FALSE, pushed_at |-> T2,
     updated_at |-> T2, stargazers_count |-> 0]

Pool == {RepoW, RepoV, RepoU, RepoE, RepoRoot, RepoS, RepoHub, RepoArchived,
         RepoNoPages, RepoPagesOff}

RECURSIVE SeqsUpTo(_, _)
SeqsUpTo(S, n) ==
    IF n = 0 THEN {<<>>}
    ELSE LET shorter == SeqsUpTo(S, n - 1)
         IN  shorter \cup { Append(q, x) : q \in shorter, x \in S }

\* a listing cut into two pages at every place, the empty first page included
Layouts(recs) == { <<SubSeq(recs, 1, c), SubSeq(recs, c + 1, Len(recs))>> : c \in 0..Len(recs) }

RichListings == UNION { Layouts(recs) : recs \in SeqsUpTo(Pool, MaxRepos) }

\* the second one has an empty third page and a fourth page behind it
SmallListings == { <<<<RepoW>>>>, <<<<RepoE, RepoV, RepoRoot>>, <<RepoW>>, <<>>, <<RepoU>>>> }

EnvMain == [GITHUB_OWNER |-> Ac, GITHUB_EXCLUDE_REPOS |-> <<" ","s"," ",",",",">>,
            GITHUB_SELF_REPO |-> None, cwd |-> <<"h","u","b">>]
Envs ==
    { EnvMain,
      [GITHUB_OWNER |-> Ac, GITHUB_EXCLUDE_REPOS |-> None, GITHUB_SELF_REPO |-> None,
       cwd |-> <<>>],
      [GITHUB_OWNER |-> Ac, GITHUB_EXCLUDE_REPOS |-> <<"A","c","/","w">>,
       GITHUB_SELF_REPO |-> <<"V">>, cwd |-> <<"h","u","b">>],
      [GITHUB_OWNER |-> Ac, GITHUB_EXCLUDE_REPOS |-> <<"u",","," ","W","\t">>,
       GITHUB_SELF_REPO |-> <<>>, cwd |-> <<"h","u","b">>],
      [GITHUB_OWNER |-> None, GITHUB_EXCLUDE_REPOS |-> None, GITHUB_SELF_REPO |-> None,
       cwd |-> <<"h","u","b">>],
      [GITHUB_OWNER |-> <<>>, GITHUB_EXCLUDE_REPOS |-> <<"w">>, GITHUB_SELF_REPO |-> None,
       cwd |-> <<"h","u","b">>] }

SiteUrl == HTTPS \o <<"w",".","i","o">>
Domain == <<"c",".","i","o">>

Site404 == [status |-> 404, data |-> NoData]
Sites ==
    { Site404,
      [status |-> 403, data |-> NoData],
      [status |-> 200, data |-> [status |-> "built", html_url |-> SiteUrl]],
      [status |-> 200, data |-> [status |-> "built", html_url |-> SiteUrl \o <<"/","/">>,
                                 cname |-> Domain]],
      [status |-> 200, data |-> [status |-> "built", html_url |-> None, cname |-> Domain]],
      [status |-> 200, data |-> [status |-> "built", cname |-> Domain \o SLASH]],
      [status |-> 200, data |-> [status |-> "built", html_url |-> <<>>, cname |-> None]],
      [status |-> 200, data |-> [status |-> "built"]] }

St(n) == [exc |-> FALSE, status |-> n]
Exc == [exc |-> TRUE, status |-> 0]

\* what a faulty endpoint does on its first attempts; afterwards it answers normally
Scripts ==
    { <<St(500)>>, <<St(202), St(500)>>, <<St(500), St(500), St(500)>>,
      <<St(202), St(202), St(202)>>, <<St(500), St(404), St(403)>>,
      <<Exc>>, <<St(500), Exc>>, <<St(403), St(202), Exc>> }

NoFault == [faultKind |-> "", faultPage |-> 0, faultRepo |-> <<>>, script |-> <<>>]
Faults ==
    {NoFault}
    \cup { [faultKind |-> "repos", faultPage |-> p, faultRepo |-> <<>>, script |-> sc] :
             p \in 1..2, sc \in Scripts }
    \cup { [faultKind |-> "pages", faultPage |-> 0, faultRepo |-> n, script |-> sc] :
             n \in {<<"w">>, <<"v">>, RepoRoot.name}, sc \in Scripts }

TextOf(t) == [exists |-> TRUE, openable |-> TRUE, text |-> t]
Reversed(q) == [i \in DOMAIN q |-> q[Len(q) + 1 - i]]

FileGarbage == TextOf([kind |-> "garbage", items |-> <<>>])
\* the path exists but open() fails on it (a directory, or no read permission)
FileUnopenable == [exists |-> TRUE, openable |-> FALSE, text |-> [kind |-> "", items |-> <<>>]]
FileEmptyArray == TextOf([kind |-> "array", items |-> <<>>])
FileObject == TextOf([kind |-> "object", items |-> <<>>])
\* RepoW's entry with the heuristic url, the members written in the opposite order
FileReordered ==
    TextOf([kind |-> "array",
            items |-> <<Reversed(
                [i \in DOMAIN KEYS |->
                    [key |-> KEYS[i],
                     val |-> Encode(KEYS[i],
                        [name |-> RepoW.name,
                         url |-> HTTPS \o Ac \o DOT_GITHUB_IO \o <<"/","w","/">>,
                         github_url |-> RepoW.html_url, description |-> RepoW.description,
                         updated_at |-> RepoW.pushed_at, stars |-> RepoW.stargazers_count,
                         language |-> RepoW.language][KEYS[i]])]])>>])
Files == {NoFile, FileGarbage, FileUnopenable, FileEmptyArray, FileObject, FileReordered}

World(env, pages, site, fault, f) ==
    [env |-> env, pages |-> pages, site |-> site, faultKind |-> fault.faultKind,
     faultPage |-> fault.faultPage, faultRepo |-> fault.faultRepo, script |-> fault.script,
     file0 |-> f]

Worlds ==
    { World(EnvMain, pg, Site404, NoFault, NoFile) : pg \in RichListings }
    \cup { World(e, pg, Site404, NoFault, f) : e \in Envs, pg \in SmallListings, f \in Files }
    \cup { World(EnvMain, pg, st, NoFault, f) :
             pg \in SmallListings, st \in Sites, f \in {NoFile, FileReordered} }
    \cup { World(EnvMain, pg, st, ft, f) :
             pg \in SmallListings, st \in {Site404, CHOOSE x \in Sites : x.status = 403},
             ft \in Faults, f \in {NoFile, FileEmptyArray, FileReordered} }

-----------------------------------------------------------------------------
(* The process *)

NoStdout == [msg |-> "", n |-> 0]
NoFirst == [pc |-> "", error |-> ""]

StartOfRun ==
    /\ pc = "start"
    /\ OWNER = None /\ OWNER_LOWER = None
    /\ EXCLUDE_REPOS = {} /\ EXCLUDE_FULL_NAMES = {}
    /\ repos = <<>> /\ page = 0
    /\ call = NoCall /\ attempt = 0 /\ r = NoResponse /\ ret = NoRet
    /\ idx = 0 /\ pages_projects = <<>> /\ origin = <<>>
    /\ error = "" /\ stdout = NoStdout /\ wrote = FALSE /\ trace = <<>>

InitIn(W) ==
    /\ world \in W
    /\ file = world.file0
    /\ dirExists = world.file0.exists
    /\ run = 1
    /\ first = NoFirst
    /\ fileAtStart = file
    /\ dirAtStart = dirExists
    /\ StartOfRun

Init == InitIn(Worlds)

\* Startup without the test of GITHUB_OWNER
StartupUnchecked ==
    /\ pc = "start"
    /\ LET owner == world.env.GITHUB_OWNER
           self_repo == Or(world.env.GITHUB_SELF_REPO, world.env.cwd)
           excl == ExcludeRepos(Or(world.env.GITHUB_EXCLUDE_REPOS, <<>>), self_repo)
       IN  /\ OWNER' = owner
           /\ OWNER_LOWER' = Lower(owner)
           /\ EXCLUDE_REPOS' = excl
           /\ EXCLUDE_FULL_NAMES' = ExcludeFullNames(Lower(owner), excl)
           /\ page' = 1
           /\ pc' = "list"
           /\ error' = ""
    /\ UNCHANGED <<world, file, dirExists, run, repos, call, attempt, r, ret, idx,
                   pages_projects, origin, stdout, wrote, trace, fileAtStart, dirAtStart,
                   first>>

\* lines 23-35: read the environment; SystemExit when GITHUB_OWNER is missing
Startup ==
    /\ pc = "start"
    /\ LET owner == world.env.GITHUB_OWNER
           self_repo == Or(world.env.GITHUB_SELF_REPO, world.env.cwd)
           excl == ExcludeRepos(Or(world.env.GITHUB_EXCLUDE_REPOS, <<>>), self_repo)
       IN  IF ~Truthy(owner)
           THEN /\ pc' = "exit"
                /\ error' = "SystemExit"
                /\ UNCHANGED <<OWNER, OWNER_LOWER, EXCLUDE_REPOS, EXCLUDE_FULL_NAMES, page>>
           ELSE /\ OWNER' = owner
                /\ OWNER_LOWER' = Lower(owner)
                /\ EXCLUDE_REPOS' = excl
                /\ EXCLUDE_FULL_NAMES' = ExcludeFullNames(Lower(owner), excl)
                /\ page' = 1
                /\ pc' = "list"
                /\ error' = ""
    /\ UNCHANGED <<world, file, dirExists, run, repos, call, attempt, r, ret, idx,
                   pages_projects, origin, stdout, wrote, trace, fileAtStart, dirAtStart,
                   first>>

\* lines 61-63: list_public_repos asks gh_get for the next page
ListRequest ==
    /\ pc = "list"
    /\ call' = [who |-> "list",
                ep |-> [kind |-> "repos", owner |-> OWNER, page |-> page, repo |-> <<>>],
                ok_codes |-> OK_LIST]
    /\ attempt' = 0
    /\ r' = NoResponse
    /\ ret' = NoRet
    /\ pc' = "gh_get"
    /\ trace' = Append(trace, [ev |-> "call", ep |-> call'.ep, tenths |-> 0])
    /\ UNCHANGED <<world, file, dirExists, run, OWNER, OWNER_LOWER, EXCLUDE_REPOS,
                   EXCLUDE_FULL_NAMES, repos, page, idx, pages_projects, origin, error,
                   stdout, wrote, fileAtStart, dirAtStart, first>>

\* GhGetAttempt with the sleep placed before the test of the status
GhGetAttemptSleepsFirst ==
    /\ pc = "gh_get"
    /\ attempt < MaxAttempts
    /\ LET o == Outcome(call.ep, attempt + 1)
           resp == Response(call.ep, o.status)
           get == [ev |-> "get", ep |-> call.ep, tenths |-> 0]
           sleep == [ev |-> "sleep", ep |-> call.ep, tenths |-> BackoffTenths * (attempt + 1)]
       IN  IF o.exc
           THEN /\ ret' = [kind |-> "raise", r |-> NoResponse, exc |-> "ConnectionError"]
                /\ pc' = "gh_ret"
                /\ trace' = Append(trace, get)
                /\ UNCHANGED <<attempt, r>>
           ELSE IF resp.status_code \in call.ok_codes
           THEN /\ ret' = [kind |-> "resp", r |-> resp, exc |-> ""]
                /\ r' = resp
                /\ pc' = "gh_ret"
                /\ trace' = trace \o <<get, sleep>>
                /\ UNCHANGED attempt
           ELSE /\ r' = resp
                /\ attempt' = attempt + 1
                /\ trace' = trace \o <<get, sleep>>
                /\ UNCHANGED <<ret, pc>>
    /\ UNCHANGED <<world, file, dirExists, run, OWNER, OWNER_LOWER, EXCLUDE_REPOS,
                   EXCLUDE_FULL_NAMES, repos, page, call, idx, pages_projects, origin,
                   error, stdout, wrote, fileAtStart, dirAtStart, first>>

\* lines 47-52: one iteration of gh_get's loop
GhGetAttempt ==
    /\ pc = "gh_get"
    /\ attempt < MaxAttempts
    /\ LET o == Outcome(call.ep, attempt + 1)
           resp == Response(call.ep, o.status)
           get == [ev |-> "get", ep |-> call.ep, tenths |-> 0]
           sleep == [ev |-> "sleep", ep |-> call.ep, tenths |-> BackoffTenths * (attempt + 1)]
       IN  IF o.exc
           THEN /\ ret' = [kind |-> "raise", r |-> NoResponse, exc |-> "ConnectionError"]
                /\ pc' = "gh_ret"
                /\ trace' = Append(trace, get)
                /\ UNCHANGED <<attempt, r>>
           ELSE IF resp.status_code \in call.ok_codes
           THEN /\ ret' = [kind |-> "resp", r |-> resp, exc |-> ""]
                /\ r' = resp
                /\ pc' = "gh_ret"
                /\ trace' = Append(trace, get)
                /\ UNCHANGED attempt
           ELSE /\ r' = resp
                /\ attempt' = attempt + 1
                /\ trace' = trace \o <<get, sleep>>
                /\ UNCHANGED <<ret, pc>>
    /\ UNCHANGED <<world, file, dirExists, run, OWNER, OWNER_LOWER, EXCLUDE_REPOS,
                   EXCLUDE_FULL_NAMES, repos, page, call, idx, pages_projects, origin,
                   error, stdout, wrote, fileAtStart, dirAtStart, first>>

\* line 53: the loop is over, r.raise_for_status()
GhGetExhausted ==
    /\ pc = "gh_get"
    /\ attempt = MaxAttempts
    /\ ret' = Exhausted(r)
    /\ pc' = "gh_ret"
    /\ UNCHANGED <<world, file, dirExists, run, OWNER, OWNER_LOWER, EXCLUDE_REPOS,
                   EXCLUDE_FULL_NAMES, repos, page, call, attempt, r, idx, pages_projects,
                   origin, error, stdout, wrote, trace, fileAtStart, dirAtStart, first>>

\* ListReturn taking a failed page request for the end of the listing
ListReturnPartial ==
    /\ pc = "gh_ret"
    /\ call.who = "list"
    /\ IF ret.kind # "resp" \/ ret.r.chunk = <<>>
       THEN /\ pc' = "main_for" /\ idx' = 1
            /\ UNCHANGED <<repos, page, error>>
       ELSE /\ repos' = repos \o ret.r.chunk
            /\ page' = page + 1
            /\ pc' = "list"
            /\ UNCHANGED <<idx, error>>
    /\ UNCHANGED <<world, file, dirExists, run, OWNER, OWNER_LOWER, EXCLUDE_REPOS,
                   EXCLUDE_FULL_NAMES, call, attempt, r, ret, pages_projects, origin,
                   stdout, wrote, trace, fileAtStart, dirAtStart, first>>

\* ListReturn advancing the page number by two
ListReturnSkips ==
    /\ pc = "gh_ret"
    /\ call.who = "list"
    /\ IF ret.kind = "raise"
       THEN /\ pc' = "exit" /\ error' = ret.exc
            /\ UNCHANGED <<repos, page, idx>>
       ELSE IF ret.kind = "none"
       THEN /\ pc' = "exit" /\ error' = "AttributeError"
            /\ UNCHANGED <<repos, page, idx>>
       ELSE IF ret.r.chunk = <<>>
       THEN /\ pc' = "main_for" /\ idx' = 1
            /\ UNCHANGED <<repos, page, error>>
       ELSE /\ repos' = repos \o ret.r.chunk
            /\ page' = page + 2
            /\ pc' = "list"
            /\ UNCHANGED <<idx, error>>
    /\ UNCHANGED <<world, file, dirExists, run, OWNER, OWNER_LOWER, EXCLUDE_REPOS,
                   EXCLUDE_FULL_NAMES, call, attempt, r, ret, pages_projects, origin,
                   stdout, wrote, trace, fileAtStart, dirAtStart, first>>

\* lines 63-69 and 102-104: gh_get comes back to list_public_repos
ListReturn ==
    /\ pc = "gh_ret"
    /\ call.who = "list"
    /\ IF ret.kind = "raise"
       THEN \* not caught anywhere: the process ends with the exception
            /\ pc' = "exit" /\ error' = ret.exc
            /\ UNCHANGED <<repos, page, idx>>
       ELSE IF ret.kind = "none"
       THEN \* None.json()
            /\ pc' = "exit" /\ error' = "AttributeError"
            /\ UNCHANGED <<repos, page, idx>>
       ELSE IF ret.r.chunk = <<>>
       THEN /\ pc' = "main_for" /\ idx' = 1
            /\ UNCHANGED <<repos, page, error>>
       ELSE /\ repos' = repos \o ret.r.chunk
            /\ page' = page + 1
            /\ pc' = "list"
            /\ UNCHANGED <<idx, error>>
    /\ UNCHANGED <<world, file, dirExists, run, OWNER, OWNER_LOWER, EXCLUDE_REPOS,
                   EXCLUDE_FULL_NAMES, call, attempt, r, ret, pages_projects, origin,
                   stdout, wrote, trace, fileAtStart, dirAtStart, first>>

\* lines 105-117 and 76-87: one iteration of main's loop up to the lookup;
\* a record that is filtered out or is the root site finishes the iteration here
MainLoop ==
    /\ pc = "main_for"
    /\ idx <= Len(repos)
    /\ LET repo == repos[idx]
       IN  IF ~Eligible(repo)
           THEN /\ idx' = idx + 1
                /\ UNCHANGED <<pc, call, attempt, r, ret, pages_projects, origin, trace>>
           ELSE IF IsRoot(OWNER, repo["name"])
           THEN /\ pages_projects' = Append(pages_projects, Entry(repo, RootUrl(OWNER)))
                /\ origin' = Append(origin, idx)
                /\ idx' = idx + 1
                /\ UNCHANGED <<pc, call, attempt, r, ret, trace>>
           ELSE /\ call' = [who |-> "pages",
                            ep |-> [kind |-> "pages", owner |-> OWNER, page |-> 0,
                                    repo |-> repo["name"]],
                            ok_codes |-> OK_PAGES]
                /\ attempt' = 0
                /\ r' = NoResponse
                /\ ret' = NoRet
                /\ pc' = "gh_get"
                /\ trace' = Append(trace, [ev |-> "call", ep |-> call'.ep, tenths |-> 0])
                /\ UNCHANGED <<idx, pages_projects, origin>>
    /\ UNCHANGED <<world, file, dirExists, run, OWNER, OWNER_LOWER, EXCLUDE_REPOS,
                   EXCLUDE_FULL_NAMES, repos, page, error, stdout, wrote,
                   fileAtStart, dirAtStart, first>>

\* lines 87-99 and 118-134: gh_get comes back to get_pages_url, the entry is appended
PagesReturn ==
    /\ pc = "gh_ret"
    /\ call.who = "pages"
    /\ LET repo == repos[idx]
           add(url) == /\ pages_projects' = Append(pages_projects, Entry(repo, url))
                       /\ origin' = Append(origin, idx)
                       /\ idx' = idx + 1
                       /\ pc' = "main_for"
                       /\ UNCHANGED error
       IN  IF ret.kind = "raise"
           THEN IF ret.exc \in RequestException
                THEN add(FallbackUrl(OWNER, repo["name"]))
                ELSE /\ pc' = "exit" /\ error' = ret.exc
                     /\ UNCHANGED <<pages_projects, origin, idx>>
           ELSE IF ret.kind = "none"
           THEN \* None.status_code: not a RequestException
                /\ pc' = "exit" /\ error' = "AttributeError"
                /\ UNCHANGED <<pages_projects, origin, idx>>
           ELSE add(UrlOfResponse(OWNER, repo["name"], ret.r))
    /\ UNCHANGED <<world, file, dirExists, run, OWNER, OWNER_LOWER, EXCLUDE_REPOS,
                   EXCLUDE_FULL_NAMES, repos, page, call, attempt, r, ret, stdout, wrote,
                   trace, fileAtStart, dirAtStart, first>>

\* lines 136-158: sort, read the old snapshot, compare, write
Finish ==
    /\ pc = "main_for"
    /\ idx > Len(repos)
    /\ LET perm == SortPerm(pages_projects)
           sorted == Permute(pages_projects, perm)
           old == IF file.exists THEN Load(file.text) ELSE [kind |-> "None", v |-> <<>>]
       IN  /\ pages_projects' = sorted
           /\ origin' = Permute(origin, perm)
           /\ dirExists' = TRUE
           /\ IF file.exists /\ ~file.openable
              THEN \* open(out_path, "r") raises outside the try
                   /\ pc' = "exit" /\ error' = "OSError"
                   /\ UNCHANGED <<file, wrote, stdout>>
              ELSE IF SameAsOld(old, sorted)
              THEN /\ stdout' = [msg |-> "No changes", n |-> 0]
                   /\ pc' = "exit"
                   /\ UNCHANGED <<file, wrote, error>>
              ELSE /\ file' = TextOf(Dump(sorted))
                   /\ wrote' = TRUE
                   /\ stdout' = [msg |-> "Wrote", n |-> Len(sorted)]
                   /\ pc' = "exit"
                   /\ UNCHANGED error
    /\ UNCHANGED <<world, run, OWNER, OWNER_LOWER, EXCLUDE_REPOS, EXCLUDE_FULL_NAMES,
                   repos, page, call, attempt, r, ret, idx, trace, fileAtStart,
                   dirAtStart, first>>

\* the script is started again, on the files the first run left and the same upstream
SecondRun ==
    /\ pc = "exit"
    /\ run = 1
    /\ run' = 2
    /\ first' = [pc |-> pc, error |-> error]
    /\ fileAtStart' = file
    /\ dirAtStart' = dirExists
    /\ pc' = "start"
    /\ OWNER' = None /\ OWNER_LOWER' = None
    /\ EXCLUDE_REPOS' = {} /\ EXCLUDE_FULL_NAMES' = {}
    /\ repos' = <<>> /\ page' = 0
    /\ call' = NoCall /\ attempt' = 0 /\ r' = NoResponse /\ ret' = NoRet
    /\ idx' = 0 /\ pages_projects' = <<>> /\ origin' = <<>>
    /\ error' = "" /\ stdout' = NoStdout /\ wrote' = FALSE /\ trace' = <<>>
    /\ UNCHANGED <<world, file, dirExists>>

Next ==
    \/ Startup
    \/ ListRequest
    \/ GhGetAttempt
    \/ GhGetExhausted
    \/ ListReturn
    \/ MainLoop
    \/ PagesReturn
    \/ Finish
    \/ SecondRun

Spec == Init /\ [][Next]_vars


\* every outcome an attempt can have: acceptable and other statuses, an exception
AttemptOutcomes == {St(200), St(202), St(301), St(403), St(404), St(500), Exc}

\* a listing of one repository whose first page, whose empty second page or whose
\* site-configuration endpoint goes through every sequence of three outcomes
GetWorlds ==
    { World(EnvMain, <<<<RepoW>>>>, st,
            [faultKind |-> "pages", faultPage |-> 0, faultRepo |-> <<"w">>,
             script |-> <<a, b, c>>], NoFile) :
        a \in AttemptOutcomes, b \in AttemptOutcomes, c \in AttemptOutcomes,
        st \in {Site404, [status |-> 200, data |-> [status |-> "built", html_url |-> SiteUrl]]} }
    \cup { World(EnvMain, <<<<RepoW>>>>, Site404,
               [faultKind |-> "repos", faultPage |-> p, faultRepo |-> <<>>,
                script |-> <<a, b, c>>], FileEmptyArray) :
        a \in AttemptOutcomes, b \in AttemptOutcomes, c \in AttemptOutcomes, p \in {1, 2} }

InitGet == InitIn(GetWorlds)

\* the same process, over every sequence of outcomes of one endpoint
SpecGet == InitGet /\ [][Next]_vars

-----------------------------------------------------------------------------
(* Properties *)

\* the process has ended without an exception
Succeeded == pc = "exit" /\ error = ""

\* the record an entry of pages_projects was built from
RecordOf(i) == repos[origin[i]]

\* the qualified name of a record, account/name when the upstream gives none
FullNameOf(repo) == Get(repo, "full_name", world.env.GITHUB_OWNER \o SLASH \o repo["name"])

\* C1: a second run on the file state a successful first run left, with the same upstream
\* answers and configuration, succeeds, does not write, leaves the file as it was and
\* reports "No changes".
C1_SecondRunWritesNothing ==
    (run = 2 /\ first.error = "" /\ pc = "exit")
        => /\ error = ""
           /\ ~wrote
           /\ file = fileAtStart
           /\ stdout.msg = "No changes"

\* a second run has ended after a first run that wrote a snapshot of two entries or more
C1_Witness ==
    /\ run = 2 /\ first.error = "" /\ pc = "exit"
    /\ fileAtStart # world.file0
    /\ Len(pages_projects) >= 2

\* a 200 answer of the site-configuration endpoint would carry a site url or a domain
SiteUsable ==
    /\ world.site.status = 200
    /\ \/ Truthy(Get(world.site.data, "html_url", None))
       \/ Truthy(Get(world.site.data, "cname", None))

\* C2 (as claimed): a run never ends inside a site-configuration lookup: whatever the
\* lookup's outcome, the process ends only after main's loop has gone through every
\* listed record; and where no 200 answer could supply a site url or a domain, every
\* entry that is not the root site has the heuristic url.
C2_LookupNeverAborts ==
    /\ (pc = "exit" /\ call.who = "pages") => idx > Len(repos)
    /\ ~SiteUsable =>
          \A i \in DOMAIN pages_projects :
              Lower(pages_projects[i]["name"]) # Lower(world.env.GITHUB_OWNER) \o DOT_GITHUB_IO
                  => pages_projects[i]["url"] =
                        HTTPS \o world.env.GITHUB_OWNER \o DOT_GITHUB_IO \o SLASH
                              \o pages_projects[i]["name"] \o SLASH

\* C3: when a listing page request fails, the process ends with an exception and the
\* snapshot file and its directory are as they were when the run started.
C3_ListingFailureWritesNothing ==
    (pc = "exit" /\ call.who = "list" /\ ret.kind # "resp")
        => /\ error # ""
           /\ ~wrote
           /\ file = fileAtStart
           /\ dirExists = dirAtStart

\* the second page request failed on its third attempt, with a snapshot already on disk
C3_Witness ==
    /\ pc = "exit" /\ call.who = "list" /\ ret.kind # "resp"
    /\ call.ep.page = 2 /\ repos # <<>> /\ attempt = MaxAttempts
    /\ fileAtStart.exists

\* the exclusion set of the configuration: the trimmed, lower-cased, non-empty entries of
\* GITHUB_EXCLUDE_REPOS and the self repository's name
ExclusionSet ==
    ExcludeRepos(Or(world.env.GITHUB_EXCLUDE_REPOS, <<>>),
                 Or(world.env.GITHUB_SELF_REPO, world.env.cwd))

\* C4 (as claimed): no entry is built from a record whose lower-cased name or lower-cased
\* qualified name is a member of the exclusion set.
C4_NameOrFullNameInSet ==
    \A i \in DOMAIN pages_projects :
        /\ Lower(RecordOf(i)["name"]) \notin ExclusionSet
        /\ Lower(FullNameOf(RecordOf(i))) \notin ExclusionSet

\* C4 (amended): no entry is built from a record whose lower-cased name is a member of the
\* exclusion set, or whose lower-cased qualified name is the lower-cased account, a slash
\* and a member of the exclusion set.
C4_ExcludedByName ==
    \A i \in DOMAIN pages_projects :
        /\ Lower(RecordOf(i)["name"]) \notin ExclusionSet
        /\ Lower(FullNameOf(RecordOf(i))) \notin
              { Lower(world.env.GITHUB_OWNER) \o SLASH \o n : n \in ExclusionSet }

\* a run has succeeded with an entry in the output, and a listed record that has a
\* published site and is not archived was left out for its name, spelled in another case
C4_Witness ==
    /\ Succeeded
    /\ pages_projects # <<>>
    /\ \E k \in DOMAIN repos :
          /\ Get(repos[k], "has_pages", FALSE) /\ ~Get(repos[k], "archived", FALSE)
          /\ Lower(repos[k]["name"]) \in ExclusionSet
          /\ repos[k]["name"] \notin ExclusionSet
          /\ \A i \in DOMAIN origin : origin[i] # k

\* C5: every entry is built from a record whose has_pages is present and true and whose
\* archived flag is not true, and carries that record's name.
C5_OnlyPublishedUnarchived ==
    \A i \in DOMAIN pages_projects :
        /\ "has_pages" \in DOMAIN RecordOf(i) /\ RecordOf(i)["has_pages"] = TRUE
        /\ ("archived" \in DOMAIN RecordOf(i) => RecordOf(i)["archived"] = FALSE)
        /\ pages_projects[i]["name"] = RecordOf(i)["name"]

\* a run has succeeded in which an archived record with a published site was listed next
\* to a record of the same name that is in the output
C5_Witness ==
    /\ Succeeded
    /\ \E k \in DOMAIN repos :
          /\ Get(repos[k], "archived", FALSE)
          /\ Get(repos[k], "has_pages", FALSE)
          /\ \E i \in DOMAIN pages_projects :
                pages_projects[i]["name"] = repos[k]["name"]

\* https://ac.github.io/, the root site of the account Ac
AcRootUrl == <<"h","t","t","p","s",":","/","/","a","c",".","g","i","t","h","u","b",".","i","o","/">>
AcRootName == <<"a","c",".","g","i","t","h","u","b",".","i","o">>

\* C6: an entry whose name is, case aside, {account-lowercased}.github.io has exactly the
\* url https://{account-lowercased}.github.io/, and no request for its site configuration
\* was made.
C6_RootSiteUrl ==
    \A i \in DOMAIN pages_projects :
        Lower(pages_projects[i]["name"]) = AcRootName
            => /\ pages_projects[i]["url"] = AcRootUrl
               /\ \A k \in DOMAIN trace : trace[k].ep.repo # pages_projects[i]["name"]

\* a run has succeeded with the root site in the output, spelled with a capital, where
\* its site-configuration endpoint would have answered 200 with a site url
C6_Witness ==
    /\ Succeeded
    /\ \E i \in DOMAIN pages_projects :
          /\ Lower(pages_projects[i]["name"]) = AcRootName
          /\ pages_projects[i]["name"] # AcRootName
    /\ world.site.status = 200
    /\ "html_url" \in DOMAIN world.site.data


\* the calls list_public_repos made to gh_get in this run, in order
ListCalls == SelectSeq(trace, LAMBDA e : e.ev = "call" /\ e.ep.kind = "repos")

\* the first n pages of the upstream's listing, concatenated
RECURSIVE ConcatPages(_)
ConcatPages(n) == IF n = 0 THEN <<>> ELSE ConcatPages(n - 1) \o PageChunk(n)

\* list_public_repos has returned to main
ListingReturned ==
    \/ pc = "main_for"
    \/ call.who = "pages"
    \/ pc = "exit" /\ error \in {"", "OSError"}

\* the number of the upstream's first empty page
FirstEmptyPage == CHOOSE n \in 1..(Len(world.pages) + 1) :
                     PageChunk(n) = <<>> /\ \A k \in 1..(n - 1) : PageChunk(k) # <<>>

\* the requests made for the page that list_public_repos is asking for
GetsOfPage(n) == SelectSeq(trace, LAMBDA e : e.ev = "get" /\ e.ep.kind = "repos" /\ e.ep.page = n)

\* C7: the k-th page request of a run asks for page k, a further page is requested only
\* after a page that was not empty, so that no page after the first empty one is ever
\* requested and the listing ends after at most that many page requests of at most
\* three attempts each; when it returns, the last page requested was empty and the
\* result is the concatenation, in page order, of the pages before it.
C7_Pagination ==
    /\ \A k \in DOMAIN ListCalls :
          /\ ListCalls[k].ep.page = k
          /\ k < Len(ListCalls) => PageChunk(k) # <<>>
          /\ Len(GetsOfPage(k)) <= MaxAttempts
    /\ Len(ListCalls) <= FirstEmptyPage
    /\ \A k \in DOMAIN trace :
          trace[k].ep.kind = "repos" => trace[k].ep.page \in 1..Len(ListCalls)
    /\ ListingReturned =>
          /\ Len(ListCalls) = FirstEmptyPage
          /\ repos = ConcatPages(FirstEmptyPage - 1)

\* the listing has returned after three page requests, the third page being empty and
\* the upstream holding a fourth page that is not
C7_Witness ==
    /\ ListingReturned
    /\ Len(ListCalls) = 3
    /\ Len(repos) = 4
    /\ PageChunk(4) # <<>>

\* C8 (as claimed): a snapshot that a run wrote holds no two entries of the same name.
C8_NoDuplicateNames ==
    (pc = "exit" /\ wrote) =>
        LET snapshot == Load(file.text).v
        IN  \A i, j \in DOMAIN snapshot :
                i # j => snapshot[i]["name"] # snapshot[j]["name"]

\* the place of a timestamp of the inputs in the lexicographic order
Rank(ts) == IF ts = T2 THEN 2 ELSE IF ts = T1 THEN 1 ELSE 0

\* C9: in the list a successful run compared and wrote, an earlier entry's updated_at is
\* never less than a later one's, no entry with an empty updated_at comes before one
\* with a non-empty one, and entries of equal updated_at are in the order of the listing.
C9_SortedStable ==
    Succeeded =>
        \A i, j \in DOMAIN pages_projects :
            i < j =>
                LET a == pages_projects[i]["updated_at"]
                    b == pages_projects[j]["updated_at"]
                IN  /\ a \in {T1, T2, <<>>} /\ b \in {T1, T2, <<>>}
                    /\ Rank(a) >= Rank(b)
                    /\ a = <<>> => b = <<>>
                    /\ a = b => origin[i] < origin[j]

\* a successful run whose sort moved the record listed first, without a timestamp, to the
\* end and kept the second and the fourth, of equal timestamp, in that order
C9_Witness ==
    /\ Succeeded
    /\ origin = <<2, 4, 3, 1>>
    /\ pages_projects[1]["updated_at"] = pages_projects[2]["updated_at"]
    /\ pages_projects[4]["updated_at"] = <<>>

\* the snapshot this run found cannot be opened or does not parse
OldSnapshotUnusable ==
    /\ fileAtStart.exists
    /\ ~fileAtStart.openable \/ Load(fileAtStart.text).kind = "None"

\* C10 (as claimed): a run that finds a snapshot it cannot read or parse does not fail
\* because of it, and if it succeeds it has written the list it computed over it.
C10_UnusableSnapshotReplaced ==
    (pc = "exit" /\ OldSnapshotUnusable) =>
        /\ error # "OSError"
        /\ error = "" => (wrote /\ file = TextOf(Dump(pages_projects)))


\* a listed record is eligible: published-site flag set, not archived, not excluded
EligibleRecord(repo) ==
    /\ "has_pages" \in DOMAIN repo /\ repo["has_pages"] = TRUE
    /\ ~("archived" \in DOMAIN repo /\ repo["archived"] = TRUE)
    /\ Lower(repo["name"]) \notin ExclusionSet
    /\ Lower(FullNameOf(repo)) \notin
          { Lower(world.env.GITHUB_OWNER) \o SLASH \o n : n \in ExclusionSet }

\* C11: after a successful run the entries correspond one to one to the listed records
\* that are eligible: every entry is built from an eligible record, no two entries from
\* the same record, every eligible record has an entry, and the counts are equal.
C11_OneEntryPerEligibleRecord ==
    Succeeded =>
        /\ \A i \in DOMAIN origin : origin[i] \in DOMAIN repos /\ EligibleRecord(RecordOf(i))
        /\ \A i, j \in DOMAIN origin : i # j => origin[i] # origin[j]
        /\ \A k \in DOMAIN repos : EligibleRecord(repos[k]) => \E i \in DOMAIN origin : origin[i] = k
        /\ Len(pages_projects) = Cardinality({ k \in DOMAIN repos : EligibleRecord(repos[k]) })
        /\ Len(origin) = Len(pages_projects)

\* a successful run over four listed records, three of them eligible and one excluded
C11_Witness ==
    /\ Succeeded
    /\ Len(repos) = 4
    /\ Len(pages_projects) = 3
    /\ \E k \in DOMAIN repos : Lower(repos[k]["name"]) \in ExclusionSet

\* C12: after a successful run, whether it wrote or printed "No changes", the snapshot
\* exists and parses to the list the run computed, entry by entry in the same order; a
\* run that found no snapshot and computed the empty list has written the empty array.
C12_SnapshotParsesToList ==
    Succeeded =>
        /\ file.exists /\ file.openable
        /\ Load(file.text).kind = "list"
        /\ Len(Load(file.text).v) = Len(pages_projects)
        /\ \A i \in DOMAIN pages_projects :
              \A k \in DOMAIN KEYS :
                  /\ KEYS[k] \in DOMAIN Load(file.text).v[i]
                  /\ Load(file.text).v[i][KEYS[k]] = pages_projects[i][KEYS[k]]
        /\ (~fileAtStart.exists /\ pages_projects = <<>>) =>
              (wrote /\ file.text = [kind |-> "array", items |-> <<>>])

\* a run has printed "No changes" over a snapshot of one entry whose text is not the text
\* the run would have written
C12_Witness ==
    /\ Succeeded
    /\ ~wrote
    /\ stdout.msg = "No changes"
    /\ Len(pages_projects) = 1
    /\ file.text # Dump(pages_projects)

\* C13: when GITHUB_OWNER is absent or empty the process never gets past its start: no
\* call of gh_get, no request, the snapshot and its directory untouched, and it ends
\* with SystemExit.
C13_NoOwnerNoActivity ==
    ~Truthy(world.env.GITHUB_OWNER) =>
        /\ pc \in {"start", "exit"}
        /\ pc = "exit" => error = "SystemExit"
        /\ trace = <<>>
        /\ ~wrote
        /\ file = fileAtStart
        /\ dirExists = dirAtStart

\* the process has ended with SystemExit where the upstream had repositories to list and
\* a snapshot was on disk
C13_Witness ==
    /\ pc = "exit" /\ error = "SystemExit"
    /\ world.env.GITHUB_OWNER = <<>>
    /\ world.pages # <<>>
    /\ fileAtStart.exists


\* the place in the trace of the latest call of gh_get
LastCall ==
    CHOOSE k \in DOMAIN trace :
        trace[k].ev = "call" /\ \A j \in DOMAIN trace : j > k => trace[j].ev # "call"

\* the requests and sleeps of the latest call of gh_get
CallEvents == SubSeq(trace, LastCall + 1, Len(trace))
CallGets == Len(SelectSeq(CallEvents, LAMBDA e : e.ev = "get"))
CallSleeps == SelectSeq(CallEvents, LAMBDA e : e.ev = "sleep")

\* the acceptable statuses of an endpoint: 200 for the listing, 200, 403 and 404 for the
\* site configuration
Acceptable(ep) == IF ep.kind = "repos" THEN {200} ELSE {200, 403, 404}

\* the k-th attempt of the latest call got a response of acceptable status
AcceptableAt(k) ==
    ~Outcome(call.ep, k).exc /\ Outcome(call.ep, k).status \in Acceptable(call.ep)

\* C14 (as claimed): gh_get comes back either with a response of acceptable status or
\* with an exception, and after three responses none of which has an acceptable status
\* the exception is an HTTPError.
C14_ReturnsAcceptableOrRaises ==
    pc = "gh_ret" =>
        /\ \/ ret.kind = "resp" /\ ret.r.status_code \in Acceptable(call.ep)
           \/ ret.kind = "raise"
        /\ (/\ CallGets = MaxAttempts
            /\ \A k \in 1..MaxAttempts :
                  ~Outcome(call.ep, k).exc /\ ~AcceptableAt(k))
              => (ret.kind = "raise" /\ ret.exc = "HTTPError")

\* C15 (as claimed): a network exception reaches the caller of gh_get only after three
\* attempts have been made.
C15_ExceptionOnlyAfterThreeAttempts ==
    (pc = "gh_ret" /\ ret.kind = "raise" /\ ret.exc = "ConnectionError")
        => CallGets = MaxAttempts

\* C16 (as claimed): when gh_get comes back, its last event was a request and not a
\* sleep, its n-th sleep lasted 1.5 * n seconds, and a call that made three attempts
\* without an acceptable status slept exactly twice, 1.5 s and 3.0 s.
C16_SleepsBetweenAttemptsOnly ==
    pc = "gh_ret" =>
        /\ trace[Len(trace)].ev = "get"
        /\ \A n \in DOMAIN CallSleeps : CallSleeps[n].tenths = 15 * n
        /\ Len(CallSleeps) = CallGets - 1
        /\ (CallGets = 3 /\ ret.kind # "resp") =>
              (Len(CallSleeps) = 2 /\ CallSleeps[1].tenths = 15 /\ CallSleeps[2].tenths = 30)

\* C17: a call of gh_get makes at most three requests, and at least one before it comes
\* back; the attempt that gets a response of acceptable status is the last one, nothing
\* follows it, neither a request nor a sleep, and its response is what gh_get returns.
C17_BoundedAndReturnsFirstAcceptable ==
    /\ pc \in {"gh_get", "gh_ret"} => CallGets <= 3
    /\ pc = "gh_get" => \A k \in 1..CallGets : ~AcceptableAt(k)
    /\ pc = "gh_ret" =>
          /\ CallGets >= 1
          /\ \A k \in 1..CallGets :
                AcceptableAt(k) =>
                    /\ k = CallGets
                    /\ trace[Len(trace)].ev = "get"
                    /\ Len(CallSleeps) = k - 1
                    /\ ret.kind = "resp"
                    /\ ret.r.status_code = Outcome(call.ep, k).status
                    /\ ret.r.chunk = (IF call.ep.kind = "repos" THEN PageChunk(call.ep.page)
                                      ELSE <<>>)
          /\ ret.kind = "resp" => AcceptableAt(CallGets)

\* gh_get has come back from the site-configuration endpoint with the 403 of its third
\* attempt, after a 500 and a 301
C17_Witness ==
    /\ pc = "gh_ret"
    /\ call.ep.kind = "pages"
    /\ CallGets = 3
    /\ ret.kind = "resp" /\ ret.r.status_code = 403
    /\ Outcome(call.ep, 1).status = 500 /\ Outcome(call.ep, 2).status = 301


\* the heuristic url of a repository of the account
HeuristicUrl(name) == HTTPS \o world.env.GITHUB_OWNER \o DOT_GITHUB_IO \o SLASH \o name \o SLASH

\* the url the priority rule gives for the body of a 200 answer; the site urls of the
\* inputs are SiteUrl with or without trailing slashes, the domains Domain likewise
UrlByPriority(data, name) ==
    IF "html_url" \in DOMAIN data /\ data["html_url"] \notin {None, <<>>}
    THEN SiteUrl \o SLASH
    ELSE IF "cname" \in DOMAIN data /\ data["cname"] \notin {None, <<>>}
    THEN HTTPS \o Domain \o SLASH
    ELSE HeuristicUrl(name)

\* the entry appended last is the one for which gh_get has just answered
JustLookedUp ==
    /\ pc = "main_for"
    /\ call.who = "pages"
    /\ origin # <<>>
    /\ origin[Len(origin)] = idx - 1
    /\ call.ep.repo = repos[idx - 1]["name"]

PagesCalls == SelectSeq(trace, LAMBDA e : e.ev = "call" /\ e.ep.kind = "pages")

\* the number of listed records main's loop has taken up
TakenUp ==
    IF ~ListingReturned THEN 0
    ELSE IF pc \in {"gh_get", "gh_ret"} \/ (pc = "exit" /\ idx <= Len(repos)) THEN idx
    ELSE idx - 1

\* the listed records, among the first n, for which a lookup is due
RECURSIVE DueLookups(_)
DueLookups(n) ==
    IF n = 0 THEN <<>>
    ELSE IF EligibleRecord(repos[n]) /\ Lower(repos[n]["name"]) # AcRootName
    THEN Append(DueLookups(n - 1), repos[n]["name"])
    ELSE DueLookups(n - 1)

\* C19: no request of the listing follows a request of a site configuration, and the
\* site-configuration calls are, in order, exactly one for each record taken up so far
\* that has a published site, is not archived, is not excluded and is not the root site.
C19_LookupsAfterListingForEligibleOnly ==
    /\ \A j, k \in DOMAIN trace :
          (j < k /\ trace[j].ep.kind = "pages") => trace[k].ep.kind = "pages"
    /\ (PagesCalls # <<>>) => ListingReturned
    /\ [i \in DOMAIN PagesCalls |-> PagesCalls[i].ep.repo] = DueLookups(TakenUp)
    /\ \A k \in DOMAIN trace :
          trace[k].ep.kind = "pages" =>
              \E i \in DOMAIN PagesCalls : PagesCalls[i].ep = trace[k].ep

\* a run has succeeded that looked up three repositories and listed the root site
C19_Witness ==
    /\ Succeeded
    /\ Len(PagesCalls) = 3
    /\ \E k \in DOMAIN repos : Lower(repos[k]["name"]) = AcRootName

====
